---- MODULE Spec2Model ----
(***************************************************************************)
(* A model of audit_project.py: the requirement extractor (parse_prd),     *)
(* the plan extractor (parse_plan), the test analyzer                      *)
(* (analyze_test_file, check_test_integrity), the reconciler (run_audit),  *)
(* the report renderer (generate_report) and the driver (main).            *)
(*                                                                         *)
(* Markdown lines are modelled by the shape the regular expressions of     *)
(* the source see in them (which delimiters surround the id, and the raw   *)
(* characters that follow); texts are sequences of one-character strings   *)
(* so that str.strip() and the lazy table cell group do real work.         *)
(* Python dicts are sequences of entries in insertion order.               *)
(***************************************************************************)
EXTENDS Integers, Sequences, FiniteSets, TLC

VARIABLES
    pc,                   \* position of the single control thread
    run,                  \* 1 for the first invocation, 2 for the repeated one
    prd_exists,           \* PRD.md is a file of the project root
    plan_exists,          \* PLAN.md is a file of the project root
    prdLines,             \* PRD.md split on line breaks
    planLines,            \* PLAN.md split on line breaks
    project_files,        \* the test files on disk: a set of files
    requirements,         \* parse_prd's dict, later result.requirements
    prdIdx,               \* parse_prd's loop index i (1-indexed)
    plan_items,           \* parse_plan's dict, later result.plan_items
    planIdx,              \* parse_plan's loop index i (1-indexed)
    current_section_reqs, \* parse_plan's traversal state
    test_files,           \* find_test_files' list
    fileIdx,              \* run_audit's position in test_files
    tests,                \* result.tests
    prd_not_in_plan,
    plan_not_in_prd,
    no_test_coverage,
    suspect_tests,
    completion_issues,
    report,               \* generate_report's value
    output,               \* what main did with the report
    exit_status,          \* the argument of sys.exit
    first_report          \* the report of run 1, kept to compare run 2 with

inputVars == <<prd_exists, plan_exists, prdLines, planLines, project_files>>
prdVars == <<requirements, prdIdx>>
planVars == <<plan_items, planIdx, current_section_reqs>>
testVars == <<test_files, fileIdx, tests>>
issueVars == <<prd_not_in_plan, plan_not_in_prd, no_test_coverage,
               suspect_tests, completion_issues>>
outVars == <<report, output, exit_status>>
vars == <<pc, run, inputVars, prdVars, planVars, testVars, issueVars,
          outVars, first_report>>

(***************************************************************************)
(* Bounds of the model.                                                    *)
(***************************************************************************)
MaxPrdLines == 3
MaxPlanLines == 3
MaxBody == 2
MaxAuditLines == 2
MaxFiles == 2

SeqsUpTo(S, n) == UNION {[1..k -> S] : k \in 0..n}

Max(S) == CHOOSE x \in S : \A y \in S : y <= x

(***************************************************************************)
(* Requirement ids (REQ_ID_CORE) and their order under sorted().           *)
(***************************************************************************)
Ids == {"FR-1", "FR-2"}

IdOrder == <<"FR-1", "FR-2">>

(***************************************************************************)
(* Python dict, keyed by the entries' id field: membership, lookup, and    *)
(* d[k] = v, which replaces in place or appends a new key at the end.      *)
(***************************************************************************)
Keys(d) == {d[k].id : k \in DOMAIN d}

Has(d, id) == \E k \in DOMAIN d : d[k].id = id

Get(d, id) == d[CHOOSE k \in DOMAIN d : d[k].id = id]

Put(d, item) ==
    IF Has(d, item.id)
    THEN [k \in DOMAIN d |-> IF d[k].id = item.id THEN item ELSE d[k]]
    ELSE Append(d, item)

(***************************************************************************)
(* str.strip() on a text of one-character strings.                         *)
(***************************************************************************)
RECURSIVE LStrip(_)
LStrip(s) == IF s # <<>> /\ Head(s) = " " THEN LStrip(Tail(s)) ELSE s

RECURSIVE RStrip(_)
RStrip(s) ==
    IF s # <<>> /\ s[Len(s)] = " " THEN RStrip(SubSeq(s, 1, Len(s) - 1)) ELSE s

Strip(s) == RStrip(LStrip(s))

HasPipe(s) == \E k \in DOMAIN s : s[k] = "|"

\* the characters of s before its first "|"
BeforePipe(s) ==
    LET p == CHOOSE k \in DOMAIN s : s[k] = "|" /\ \A j \in 1..(k - 1) : s[j] # "|"
    IN  SubSeq(s, 1, p - 1)

NoMatch == [ok |-> FALSE, id |-> "", text |-> <<>>]

(***************************************************************************)
(* parse_prd.  A PRD line is [form, id, raw]:                              *)
(*   form "list"     - **<id>**:<raw>                                      *)
(*   form "table"    | <id> |<raw>                                         *)
(*   form "heading"  ## <id>:<raw>                                         *)
(*   form "other"    anything else                                         *)
(***************************************************************************)
\* ^\s*[-*]\s*\*\*(ID)\*\*:\s*(.*)
PRD_REQ_PATTERN(line) ==
    IF line.form = "list"
    THEN [ok |-> TRUE, id |-> line.id, text |-> LStrip(line.raw)]
    ELSE NoMatch

\* ^\s*\|\s*(ID)\s*\|\s*(.*?)\s*\|.*   the lazy group ends before the first
\* "|" that follows, less the blanks around it; with no "|" there is no match
PRD_TABLE_REQ_PATTERN(line) ==
    IF line.form = "table" /\ HasPipe(line.raw)
    THEN [ok |-> TRUE, id |-> line.id, text |-> Strip(BeforePipe(line.raw))]
    ELSE NoMatch

\* ^#+\s*(ID):\s*(.*)
PRD_HEADING_PATTERN(line) ==
    IF line.form = "heading"
    THEN [ok |-> TRUE, id |-> line.id, text |-> LStrip(line.raw)]
    ELSE NoMatch

Requirement(id, text, line_number) ==
    [id |-> id, text |-> text, line_number |-> line_number]

\* the first-match rule of parse_prd's loop body, as a match record
PrdMatch(line) ==
    IF PRD_REQ_PATTERN(line).ok THEN PRD_REQ_PATTERN(line)
    ELSE IF PRD_TABLE_REQ_PATTERN(line).ok THEN PRD_TABLE_REQ_PATTERN(line)
    ELSE PRD_HEADING_PATTERN(line)

\* a loop body that keeps the first entry of an id
PrdLineStepFirstWins(reqs, i, line) ==
    LET m == PrdMatch(line)
    IN  IF m.ok /\ ~Has(reqs, m.id)
        THEN Put(reqs, Requirement(m.id, Strip(m.text), i))
        ELSE reqs

\* one iteration of parse_prd's loop on line i
PrdLineStep(reqs, i, line) ==
    LET m == PrdMatch(line)
    IN  IF m.ok THEN Put(reqs, Requirement(m.id, Strip(m.text), i)) ELSE reqs

RECURSIVE ParsePrdFrom(_, _, _)
ParsePrdFrom(reqs, lines, i) ==
    IF i > Len(lines) THEN reqs
    ELSE ParsePrdFrom(PrdLineStep(reqs, i, lines[i]), lines, i + 1)

parse_prd(lines) == ParsePrdFrom(<<>>, lines, 1)

PrdRawTexts == {<<"a", " ">>, <<" ", "b", "|", "c">>, <<" ", "|">>}

PrdLineSet ==
    [form : {"list", "table", "heading"}, id : Ids, raw : PrdRawTexts]
    \cup {[form |-> "other", id |-> "", raw |-> <<"a", " ">>]}

(***************************************************************************)
(* parse_plan.  A PLAN line is [kind, status, ids, text, tests]:           *)
(*   kind "heading"  ## <text>             ids: what REQ_ID_PATTERN finds  *)
(*   kind "strict"   - [<status>] **<id>**:<text>          ids = <<id>>    *)
(*   kind "loose"    - [<status>] <text>   ids: what REQ_ID_PATTERN finds  *)
(*   kind "table"    | <id> | <status> |   text: the whole line            *)
(*   kind "other"    anything else                                         *)
(* tests is what TEST_REF_PATTERN finds in the line, split on commas       *)
(* (<<>> when the line holds no Tests: `...`).                             *)
(***************************************************************************)
\* str.lower() on the checkbox characters and the status words of the model
Lower(s) ==
    CASE s = "X" -> "x"
      [] s = "Done" -> "done"
      [] s = "DONE" -> "done"
      [] s = "Pending" -> "pending"
      [] s = "YES" -> "yes"
      [] s = "Complete" -> "complete"
      [] s = "Blocked" -> "blocked"
      [] OTHER -> s

\* the status vocabulary of PLAN_TABLE_PATTERN, lower-cased (re.IGNORECASE)
TableVocabulary ==
    {"done", "pending", "in progress", "complete", "incomplete", "yes", "no", "-"}

HEADER_PATTERN(line) == line.kind = "heading"

PLAN_ITEM_PATTERN(line) == line.kind = "strict"

\* the loose pattern also matches every strict line; strict is tried first
TASK_PATTERN(line) == line.kind \in {"strict", "loose"}

PLAN_TABLE_PATTERN(line) ==
    line.kind = "table" /\ Lower(line.status) \in TableVocabulary

PlanItem(id, text, completed, line_number, test_refs) ==
    [id |-> id, text |-> text, completed |-> completed,
     line_number |-> line_number, test_refs |-> test_refs]

\* the number of lines after line i that the Tests: window covers
TestWindow == 5

\* TEST_REF_PATTERN.search over lines[i-1 : i+5] joined: the first hit
TestRefs(lines, i) ==
    LET hi == IF i + TestWindow < Len(lines) THEN i + TestWindow ELSE Len(lines)
        hits == {k \in i..hi : lines[k].tests # <<>>}
    IN  IF hits = {} THEN <<>>
        ELSE lines[CHOOSE k \in hits : \A j \in hits : k <= j].tests

Range(s) == {s[k] : k \in DOMAIN s}

\* a revocation that changes nothing
RevokeNothing(items, section) == items

\* for section_req in current_section_reqs: ...completed = False
Revoke(items, section) ==
    [k \in DOMAIN items |->
        IF items[k].id \in Range(section)
        THEN [items[k] EXCEPT !.completed = FALSE]
        ELSE items[k]]

\* plan_items[req_id] = PlanItem(...) for each id of ids, in order
RECURSIVE PutEach(_, _, _, _, _, _)
PutEach(items, ids, text, completed, i, refs) ==
    IF ids = <<>> THEN items
    ELSE PutEach(Put(items, PlanItem(Head(ids), text, completed, i, refs)),
                 Tail(ids), text, completed, i, refs)

\* a heading step that keeps the section's ids when the heading names none
PlanHeadingStepKeepSection(st, i, line) ==
    LET text == Strip(line.text)
    IN  IF line.ids # <<>>
        THEN [items |-> PutEach(st.items, line.ids, <<"Section: ">> \o text,
                                TRUE, i, <<>>),
              section |-> line.ids]
        ELSE [items |-> st.items, section |-> st.section]

\* a parse state is [items, section]
PlanHeadingStep(st, i, line) ==
    LET text == Strip(line.text)
    IN  IF line.ids # <<>>
        THEN [items |-> PutEach(st.items, line.ids, <<"Section: ">> \o text,
                                TRUE, i, <<>>),
              section |-> line.ids]
        ELSE [items |-> st.items, section |-> <<>>]

PlanStrictStep(st, i, lines) ==
    LET line == lines[i]
        done == Lower(line.status) = "x"
        revoked == IF ~done THEN Revoke(st.items, st.section) ELSE st.items
    IN  [items |-> Put(revoked, PlanItem(line.ids[1], Strip(line.text), done, i,
                                         TestRefs(lines, i))),
         section |-> st.section]

PlanLooseStep(st, i, lines) ==
    LET line == lines[i]
        done == Lower(line.status) = "x"
        revoked == IF ~done THEN Revoke(st.items, st.section) ELSE st.items
    IN  [items |-> PutEach(revoked, line.ids, Strip(line.text), done, i,
                           TestRefs(lines, i)),
         section |-> st.section]

TableCompleted(line) == Lower(line.status) \in {"done", "complete", "yes"}

\* a table branch without the "not already tracked" guard
PlanTableStepOverwrite(st, i, line) ==
    [items |-> Put(st.items, PlanItem(line.ids[1],
                       <<"Table entry: ">> \o Strip(line.text),
                       TableCompleted(line), i, <<>>)),
     section |-> st.section]

PlanTableStep(st, i, line) ==
    IF ~Has(st.items, line.ids[1])
    THEN [items |-> Put(st.items, PlanItem(line.ids[1],
                            <<"Table entry: ">> \o Strip(line.text),
                            TableCompleted(line), i, <<>>)),
          section |-> st.section]
    ELSE st

\* one iteration of parse_plan's loop on line i
PlanLineStep(st, i, lines) ==
    LET line == lines[i]
    IN  IF HEADER_PATTERN(line) THEN PlanHeadingStep(st, i, line)
        ELSE IF PLAN_ITEM_PATTERN(line) THEN PlanStrictStep(st, i, lines)
        ELSE IF TASK_PATTERN(line) THEN PlanLooseStep(st, i, lines)
        ELSE IF PLAN_TABLE_PATTERN(line) THEN PlanTableStep(st, i, line)
        ELSE st

RECURSIVE ParsePlanFrom(_, _, _)
ParsePlanFrom(st, lines, i) ==
    IF i > Len(lines) THEN st.items
    ELSE ParsePlanFrom(PlanLineStep(st, i, lines), lines, i + 1)

parse_plan(lines) == ParsePlanFrom([items |-> <<>>, section |-> <<>>], lines, 1)

PlanText == <<"t", " ">>

PlanLine(kind, status, ids, refs) ==
    [kind |-> kind, status |-> status, ids |-> ids, text |-> PlanText,
     tests |-> refs]

PlanLineSet ==
    {PlanLine("heading", "", ids, <<>>) :
        ids \in {<<>>, <<"FR-2">>, <<"FR-1", "FR-2">>}}
    \cup {PlanLine("strict", s, <<id>>, <<>>) :
        s \in {" ", "x", "X", "~"}, id \in Ids}
    \cup {PlanLine("loose", s, ids, <<>>) :
        s \in {" ", "X"}, ids \in {<<>>, <<"FR-2">>, <<"FR-2", "FR-1">>}}
    \cup {PlanLine("table", s, <<"FR-1">>, <<>>) :
        s \in {"Done", "Pending", "YES", "Blocked"}}
    \cup {PlanLine("table", "DONE", <<"FR-2">>, <<>>)}
    \cup {PlanLine("other", "", <<>>, t) : t \in {<<>>, <<"test_a">>}}

(***************************************************************************)
(* check_test_integrity.  A statement is [kind, val, sub]: kind is the ast *)
(* node class, val its expression (the asserted test, the called           *)
(* expression, the with item's context_expr, the if test), sub its nested  *)
(* statements.  An expression is [e, attr, left, right]:                   *)
(*   e "Constant"  left: the value ("True", "1", "2", or the str "s")      *)
(*   e "Compare"   attr: the operators ("Eq", "NotEq", "Eq,Eq"),           *)
(*                 left/right: a constant's value, or "name"               *)
(*   e "Call"      left: the class of func ("Attribute", "Name"),          *)
(*                 attr: func.attr or the name                             *)
(*   e "Name"      a variable; e "None": the statement has no expression   *)
(***************************************************************************)
Expr(e, attr, left, right) == [e |-> e, attr |-> attr, left |-> left, right |-> right]

NoExpr == Expr("None", "", "", "")

Stmt(kind, val, sub) == [kind |-> kind, val |-> val, sub |-> sub]

IsStr(v) == v = "s"

\* Python's == on the constants of the model: True == 1
PyEq(a, b) == a = b \/ {a, b} = {"True", "1"}

IsConstantValue(v) == v \in {"True", "1", "2", "s"}

EvidenceAttrs ==
    {"raises", "warns", "assert_called", "assert_called_once",
     "assert_called_with", "assert_called_once_with", "assert_not_called",
     "assert_has_calls"}

\* lines 347-351
body_without_docstring(body) ==
    IF body # <<>> /\ body[1].kind = "Expr" /\ body[1].val.e = "Constant"
       /\ IsStr(body[1].val.left)
    THEN Tail(body)
    ELSE body

\* a scan that knows the constant tests only, not the comparison
AlwaysPassIssueConstantsOnly(node) ==
    IF node.kind # "Assert" THEN <<>>
    ELSE IF node.val.e = "Constant" /\ node.val.left = "True"
    THEN <<"Always-pass pattern: assert True">>
    ELSE IF node.val.e = "Constant" /\ PyEq(node.val.left, "1")
    THEN <<"Always-pass pattern: assert 1">>
    ELSE <<>>

\* lines 360-374: the issue one top-level statement adds, as a list
AlwaysPassIssue(node) ==
    IF node.kind # "Assert" THEN <<>>
    ELSE IF node.val.e = "Constant" /\ node.val.left = "True"
    THEN <<"Always-pass pattern: assert True">>
    ELSE IF node.val.e = "Constant" /\ PyEq(node.val.left, "1")
    THEN <<"Always-pass pattern: assert 1">>
    ELSE IF node.val.e = "Compare" /\ IsConstantValue(node.val.left)
            /\ node.val.attr = "Eq" /\ IsConstantValue(node.val.right)
            /\ PyEq(node.val.left, node.val.right)
    THEN <<"Always-pass pattern: trivial comparison">>
    ELSE <<>>

RECURSIVE AlwaysPassIssues(_)
AlwaysPassIssues(body) ==
    IF body = <<>> THEN <<>>
    ELSE AlwaysPassIssue(Head(body)) \o AlwaysPassIssues(Tail(body))

\* AssertionFinder.visit_Call on the statement's expression
visit_Call(val) ==
    val.e = "Call" /\ val.left = "Attribute" /\ val.attr \in EvidenceAttrs

\* AssertionFinder.visit_With on the item's context_expr
visit_With(val) ==
    val.e = "Call" /\ val.left = "Attribute" /\ val.attr \in {"raises", "warns"}

\* AssertionFinder.visit(node): whether it sets found
RECURSIVE AssertionFinder(_)
AssertionFinder(node) ==
    CASE node.kind = "Assert" -> TRUE
      [] node.kind \in {"FunctionDef", "AsyncFunctionDef", "ClassDef"} -> FALSE
      [] node.kind = "With" ->
            \/ visit_With(node.val)
            \/ visit_Call(node.val)
            \/ \E k \in DOMAIN node.sub : AssertionFinder(node.sub[k])
      [] OTHER ->
            \/ visit_Call(node.val)
            \/ \E k \in DOMAIN node.sub : AssertionFinder(node.sub[k])

has_assertion(body) == \E k \in DOMAIN body : AssertionFinder(body[k])

\* a triviality test that takes every expression statement for a no-op
non_trivial_any_expr(body) ==
    \E k \in DOMAIN body : body[k].kind \notin {"Pass", "Expr"}

\* lines 424-433
non_trivial(body) ==
    \E k \in DOMAIN body :
        \/ body[k].kind \notin {"Pass", "Expr"}
        \/ body[k].kind = "Expr" /\ body[k].val.e # "Constant"

\* a check that goes on after the placeholder finding
check_test_integrity_no_return(body) ==
    LET stripped == body_without_docstring(body)
    IN  (IF Len(stripped) = 1 /\ stripped[1].kind = "Pass"
         THEN <<"Placeholder test (only pass statement)">> ELSE <<>>)
        \o AlwaysPassIssues(stripped)
        \o (IF ~has_assertion(body) /\ ~non_trivial(stripped)
            THEN <<"No assertions found (placeholder test)">>
            ELSE <<>>)

check_test_integrity(body) ==
    LET stripped == body_without_docstring(body)
    IN  IF Len(stripped) = 1 /\ stripped[1].kind = "Pass"
        THEN <<"Placeholder test (only pass statement)">>
        ELSE AlwaysPassIssues(stripped)
             \o (IF ~has_assertion(body) /\ ~non_trivial(stripped)
                 THEN <<"No assertions found (placeholder test)">>
                 ELSE <<>>)

NestedBodies == {<<Stmt("Pass", NoExpr, <<>>)>>,
                 <<Stmt("Assert", Expr("Name", "", "", ""), <<>>)>>}

StmtSet ==
    {Stmt("Expr", Expr("Constant", "", v, ""), <<>>) : v \in {"s", "1"}}
    \cup {Stmt("Expr", Expr("Call", a, "Attribute", ""), <<>>) :
            a \in {"assert_called", "run"}}
    \cup {Stmt("Pass", NoExpr, <<>>)}
    \cup {Stmt("Assert", Expr("Constant", "", v, ""), <<>>) : v \in {"True", "1", "2"}}
    \cup {Stmt("Assert", Expr("Compare", "Eq", "1", r), <<>>) :
            r \in {"1", "True", "2", "name"}}
    \cup {Stmt("Assert", Expr("Compare", "NotEq", "1", "1"), <<>>),
          Stmt("Assert", Expr("Name", "", "", ""), <<>>),
          Stmt("Assign", Expr("Name", "", "", ""), <<>>),
          Stmt("With", Expr("Call", "raises", "Attribute", ""),
               <<Stmt("Pass", NoExpr, <<>>)>>),
          Stmt("With", Expr("Call", "raises", "Name", ""),
               <<Stmt("Pass", NoExpr, <<>>)>>)}
    \cup {Stmt(k, Expr("Name", "", "", ""), b) :
            k \in {"If", "FunctionDef"}, b \in NestedBodies}

\* a function body holds at least one statement
BodySet == SeqsUpTo(StmtSet, MaxBody) \ {<<>>}

(***************************************************************************)
(* find_test_files and analyze_test_file.  A path is [dirs, name], name a  *)
(* sequence of its parts (<<"test_", "a", ".py">>).  A file is             *)
(* [raises, body]: raises names the exception that read_text or ast.parse  *)
(* raises on it ("none" when it parses), body the module's top-level       *)
(* nodes (what the text holds, whether or not it parses); a node is        *)
(* [kind, name, lineno, decorators, body, items], items being the body of  *)
(* a ClassDef.  A decorator is [call, func, attr, args], an argument       *)
(* [const, value].                                                         *)
(***************************************************************************)
skip_dirs ==
    {".venv", "venv", "node_modules", ".git", "__pycache__", ".tox", ".nox",
     "build", "dist", ".eggs", "*.egg-info"}

\* str.endswith('.egg-info') on the directory names of the model
EndsWithEggInfo(part) == part \in {"skills.egg-info"}

should_skip(path) ==
    \E k \in DOMAIN path.dirs :
        path.dirs[k] \in skip_dirs \/ EndsWithEggInfo(path.dirs[k])

\* the three glob patterns together: any file named test_*.py at any depth
GlobMatches(path) == path.name[1] = "test_" /\ path.name[Len(path.name)] = ".py"

\* the elements of set(test_files)
FoundTestFiles(files) ==
    {p \in DOMAIN files : GlobMatches(p) /\ ~should_skip(p)}

\* the lists list(set(...)) may return: the set in any order
ListOfSet(S) ==
    {order \in [1..Cardinality(S) -> S] : \A p \in S : \E k \in DOMAIN order : order[k] = p}

find_test_files(files) == ListOfSet(FoundTestFiles(files))

TestInfo(name, file, line_number, req_ids, issues) ==
    [name |-> name, file |-> file, line_number |-> line_number,
     requirement_ids |-> req_ids, issues |-> issues]

RECURSIVE ConstantArgs(_)
ConstantArgs(args) ==
    IF args = <<>> THEN <<>>
    ELSE (IF Head(args).const THEN <<Head(args).value>> ELSE <<>>)
         \o ConstantArgs(Tail(args))

\* lines 305-312
RECURSIVE DecoratorIds(_)
DecoratorIds(decorators) ==
    IF decorators = <<>> THEN <<>>
    ELSE LET d == Head(decorators)
         IN  (IF d.call /\ d.func = "Attribute" /\ d.attr = "requirement"
              THEN ConstantArgs(d.args) ELSE <<>>)
             \o DecoratorIds(Tail(decorators))

process_test_function(path, node) ==
    IF node.name[1] # "test_" THEN <<>>
    ELSE <<TestInfo(node.name, path, node.lineno, DecoratorIds(node.decorators),
                    check_test_integrity(node.body))>>

IsFunctionDef(node) == node.kind \in {"FunctionDef", "AsyncFunctionDef"}

RECURSIVE ProcessItems(_, _)
ProcessItems(path, items) ==
    IF items = <<>> THEN <<>>
    ELSE (IF IsFunctionDef(Head(items))
          THEN process_test_function(path, Head(items)) ELSE <<>>)
         \o ProcessItems(path, Tail(items))

RECURSIVE ProcessNodes(_, _)
ProcessNodes(path, nodes) ==
    IF nodes = <<>> THEN <<>>
    ELSE LET node == Head(nodes)
         IN  (IF IsFunctionDef(node) THEN process_test_function(path, node)
              ELSE IF node.kind = "ClassDef" THEN ProcessItems(path, node.items)
              ELSE <<>>)
             \o ProcessNodes(path, Tail(nodes))

\* lines 283-288: the one except clause names SyntaxError, so any other
\* exception of read_text or ast.parse leaves analyze_test_file and run_audit
Uncaught(file) == file.raises \notin {"none", "SyntaxError"}

\* the value returned when no exception leaves the function
analyze_test_file(path, file) ==
    IF file.raises = "SyntaxError" THEN <<>> ELSE ProcessNodes(path, file.body)

(***************************************************************************)
(* run_audit's reconciliation (lines 462-495).                             *)
(***************************************************************************)
KeyList(d) == [k \in DOMAIN d |-> d[k].id]

tested_requirements(ts) == UNION {Range(ts[k].requirement_ids) : k \in DOMAIN ts}

PrdNotInPlan(reqs, items) ==
    LET missing(id) == ~Has(items, id)
    IN  SelectSeq(KeyList(reqs), missing)

\* a PLAN -> PRD check that reports only the completed items
PlanNotInPrdCompletedOnly(items, reqs) ==
    LET missing(item) == item.completed /\ ~Has(reqs, item.id)
    IN  KeyList(SelectSeq(items, missing))

PlanNotInPrd(items, reqs) ==
    LET missing(id) == ~Has(reqs, id)
    IN  SelectSeq(KeyList(items), missing)

\* a coverage check that looks at the first test only
NoTestCoverageFirstTest(reqs, ts) ==
    LET untested(id) == ts = <<>> \/ id \notin Range(ts[1].requirement_ids)
    IN  SelectSeq(KeyList(reqs), untested)

NoTestCoverage(reqs, ts) ==
    LET untested(id) == id \notin tested_requirements(ts)
    IN  SelectSeq(KeyList(reqs), untested)

SuspectTests(ts) ==
    LET suspect(t) == t.issues # <<>>
    IN  SelectSeq(ts, suspect)

\* a completion check without the "plan_id in result.requirements" condition
CompletionIssuesAnyPlanId(items, reqs, ts) ==
    LET dishonest(item) ==
            /\ item.completed
            /\ ~\E k \in DOMAIN ts : item.id \in Range(ts[k].requirement_ids)
        found == SelectSeq(items, dishonest)
    IN  [k \in DOMAIN found |-> <<found[k].id, "Marked complete but no tests found">>]

\* a completion check that looks for the id in the first test only
CompletionIssuesFirstTest(items, reqs, ts) ==
    LET dishonest(item) ==
            /\ item.completed
            /\ ~(ts # <<>> /\ item.id \in Range(ts[1].requirement_ids))
            /\ Has(reqs, item.id)
        found == SelectSeq(items, dishonest)
    IN  [k \in DOMAIN found |-> <<found[k].id, "Marked complete but no tests found">>]

CompletionIssues(items, reqs, ts) ==
    LET dishonest(item) ==
            /\ item.completed
            /\ ~\E k \in DOMAIN ts : item.id \in Range(ts[k].requirement_ids)
            /\ Has(reqs, item.id)
        found == SelectSeq(items, dishonest)
    IN  [k \in DOMAIN found |-> <<found[k].id, "Marked complete but no tests found">>]

(***************************************************************************)
(* generate_report: the report as a record of its sections, each the       *)
(* sequence of the values its lines format.                                *)
(***************************************************************************)
\* sorted() on a list of distinct ids
Sorted(ids) ==
    LET listed(id) == id \in Range(ids)
    IN  SelectSeq(IdOrder, listed)

\* lines 519-525
DisplayedTotal(a, b, c, d, e) == Len(a) + Len(b) + Len(c) + Len(d) + Len(e)

NoReport ==
    [summary |-> <<0, 0, 0>>, total |-> [line |-> "", n |-> 0],
     prd_not_in_plan |-> <<>>, plan_not_in_prd |-> <<>>,
     no_test_coverage |-> <<>>, suspect_tests |-> <<>>,
     completion_issues |-> <<>>, matrix |-> <<>>]

generate_report(reqs, items, ts, notInPlan, notInPrd, noCoverage, suspects, completion) ==
    LET total == DisplayedTotal(notInPlan, notInPrd, noCoverage, suspects, completion)
        s1 == Sorted(notInPlan)
        s2 == Sorted(notInPrd)
        s3 == Sorted(noCoverage)
        s4 == Sorted(KeyList(reqs))
    IN  [summary |-> <<Len(reqs), Len(items), Len(ts)>>,
         total |-> IF total = 0
                   THEN [line |-> "**No issues found.**", n |-> 0]
                   ELSE [line |-> "**Total issues found: ", n |-> total],
         prd_not_in_plan |->
            [k \in DOMAIN s1 |->
                <<s1[k], Get(reqs, s1[k]).text, Get(reqs, s1[k]).line_number>>],
         plan_not_in_prd |->
            [k \in DOMAIN s2 |->
                <<s2[k], Get(items, s2[k]).text, Get(items, s2[k]).line_number>>],
         no_test_coverage |->
            [k \in DOMAIN s3 |-> <<s3[k], Get(reqs, s3[k]).text>>],
         suspect_tests |->
            [k \in DOMAIN suspects |->
                <<suspects[k].name, suspects[k].file, suspects[k].line_number,
                  suspects[k].requirement_ids, suspects[k].issues>>],
         completion_issues |->
            [k \in DOMAIN completion |->
                <<completion[k][1], completion[k][2],
                  Get(items, completion[k][1]).line_number>>],
         matrix |->
            [k \in DOMAIN s4 |->
                <<s4[k],
                  IF Has(items, s4[k]) THEN "Yes" ELSE "No",
                  IF \E j \in DOMAIN ts : s4[k] \in Range(ts[j].requirement_ids)
                  THEN "Yes" ELSE "No",
                  IF Has(items, s4[k])
                  THEN (IF Get(items, s4[k]).completed THEN "Complete" ELSE "Pending")
                  ELSE "Not tracked">>]]

\* an exit status that counts the requirements without coverage too
ExitStatusAllFive(a, b, d, e) ==
    IF Len(a) + Len(b) + Len(no_test_coverage) + Len(d) + Len(e) > 0 THEN 1 ELSE 0

\* lines 679-686
ExitStatus(a, b, d, e) == IF Len(a) + Len(b) + Len(d) + Len(e) > 0 THEN 1 ELSE 0

(***************************************************************************)
(* The project on disk.                                                    *)
(***************************************************************************)
Arg(const, value) == [const |-> const, value |-> value]

Decorator(call, func, attr, args) ==
    [call |-> call, func |-> func, attr |-> attr, args |-> args]

\* @pytest.mark.requirement("<id>", ...)
RequirementMark(ids) ==
    Decorator(TRUE, "Attribute", "requirement", [k \in DOMAIN ids |-> Arg(TRUE, ids[k])])

FuncNode(name, lineno, decorators, body) ==
    [kind |-> "FunctionDef", name |-> name, lineno |-> lineno,
     decorators |-> decorators, body |-> body, items |-> <<>>]

ClassNode(name, lineno, items) ==
    [kind |-> "ClassDef", name |-> name, lineno |-> lineno,
     decorators |-> <<>>, body |-> <<>>, items |-> items]

RealAssert == Stmt("Assert", Expr("Name", "", "", ""), <<>>)

PathA == [dirs |-> <<"tests">>, name |-> <<"test_", "a", ".py">>]
PathB == [dirs |-> <<"tests", "unit">>, name |-> <<"test_", "b", ".py">>]
PathC == [dirs |-> <<>>, name |-> <<"test_", "c", ".py">>]
PathBad == [dirs |-> <<"tests">>, name |-> <<"test_", "bad", ".py">>]
PathVenv == [dirs |-> <<".venv", "lib">>, name |-> <<"test_", "v", ".py">>]
\* a file whose bytes are not UTF-8: read_text raises UnicodeDecodeError
PathLatin == [dirs |-> <<"tests">>, name |-> <<"test_", "latin", ".py">>]
\* a file with one very long expression: ast.parse raises RecursionError
PathDeep == [dirs |-> <<"tests">>, name |-> <<"test_", "deep", ".py">>]

TestPaths == {PathA, PathB, PathC, PathBad, PathVenv, PathLatin, PathDeep}

\* what each file of the model holds
FileContent(path) ==
    CASE path = PathA ->
            [raises |-> "none",
             body |-> <<FuncNode(<<"test_", "zero">>, 1, <<>>, <<RealAssert>>),
                        FuncNode(<<"test_", "one">>, 5,
                                 <<RequirementMark(<<"FR-1">>)>>, <<RealAssert>>)>>]
      [] path = PathB ->
            [raises |-> "none",
             body |-> <<ClassNode(<<"Test", "B">>, 1,
                          <<FuncNode(<<"test_", "two">>, 2,
                                     <<RequirementMark(<<"FR-2">>)>>,
                                     <<Stmt("Expr", Expr("Constant", "", "s", ""), <<>>),
                                       Stmt("Pass", NoExpr, <<>>)>>),
                            FuncNode(<<"helper">>, 5, <<>>,
                                     <<Stmt("Pass", NoExpr, <<>>)>>)>>)>>]
      [] path = PathC ->
            [raises |-> "none",
             body |-> <<FuncNode(<<"test_", "three">>, 3,
                                 <<Decorator(TRUE, "Attribute", "skipif",
                                             <<Arg(TRUE, "FR-2")>>),
                                   RequirementMark(<<"FR-1", "FR-9">>)>>,
                                 <<Stmt("Assert", Expr("Constant", "", "True", ""),
                                        <<>>)>>)>>]
      [] path = PathBad ->
            [raises |-> "SyntaxError",
             body |-> <<FuncNode(<<"test_", "four">>, 1,
                                 <<RequirementMark(<<"FR-2">>)>>, <<RealAssert>>)>>]
      [] path = PathLatin ->
            [raises |-> "UnicodeDecodeError",
             body |-> <<FuncNode(<<"test_", "six">>, 1,
                                 <<RequirementMark(<<"FR-1">>)>>, <<RealAssert>>)>>]
      [] path = PathDeep ->
            [raises |-> "RecursionError",
             body |-> <<FuncNode(<<"test_", "seven">>, 1,
                                 <<RequirementMark(<<"FR-2">>)>>, <<RealAssert>>)>>]
      [] OTHER ->
            [raises |-> "none",
             body |-> <<FuncNode(<<"test_", "five">>, 1,
                                 <<RequirementMark(<<"FR-2">>)>>, <<RealAssert>>)>>]

AuditPrdLines == {[form |-> "list", id |-> id, raw |-> <<"a", " ">>] : id \in Ids}

AuditPlanLines ==
    {PlanLine("strict", "x", <<"FR-1">>, <<>>),
     PlanLine("loose", " ", <<"FR-2">>, <<>>),
     PlanLine("table", "DONE", <<"FR-2">>, <<>>)}

(***************************************************************************)
(* Initial states.  InitComputed is the state of a fresh process.          *)
(***************************************************************************)
InitComputed ==
    /\ requirements = <<>>
    /\ prdIdx = 1
    /\ plan_items = <<>>
    /\ planIdx = 1
    /\ current_section_reqs = <<>>
    /\ test_files = <<>>
    /\ fileIdx = 1
    /\ tests = <<>>
    /\ prd_not_in_plan = <<>>
    /\ plan_not_in_prd = <<>>
    /\ no_test_coverage = <<>>
    /\ suspect_tests = <<>>
    /\ completion_issues = <<>>
    /\ report = NoReport
    /\ output = "none"
    /\ exit_status = -1

\* main on a project: the documents may be missing, a missing one has no lines
Init ==
    /\ pc = "main"
    /\ run = 1
    /\ first_report = NoReport
    /\ prd_exists \in BOOLEAN
    /\ plan_exists \in BOOLEAN
    /\ prdLines \in (IF prd_exists THEN SeqsUpTo(AuditPrdLines, MaxAuditLines)
                     ELSE {<<>>})
    /\ planLines \in (IF plan_exists THEN SeqsUpTo(AuditPlanLines, MaxAuditLines)
                      ELSE {<<>>})
    /\ \E S \in SUBSET TestPaths :
          /\ Cardinality(S) <= MaxFiles
          /\ project_files = [p \in S |-> FileContent(p)]
    /\ InitComputed

(***************************************************************************)
(* main and run_audit, one action per step of the control thread.          *)
(***************************************************************************)
\* main, lines 657-663: a required document is missing
MainMissingDocument ==
    /\ pc = "main"
    /\ ~prd_exists \/ ~plan_exists
    /\ exit_status' = 1
    /\ pc' = "exited"
    /\ UNCHANGED <<run, inputVars, prdVars, planVars, testVars, issueVars,
                   report, output, first_report>>

\* a main that runs the audit without looking for the documents
MainRunAuditUnchecked ==
    /\ pc = "main"
    /\ pc' = "parse_prd"
    /\ UNCHANGED <<run, inputVars, prdVars, planVars, testVars, issueVars,
                   outVars, first_report>>

\* main, line 666: both documents exist, run_audit begins
MainRunAudit ==
    /\ pc = "main"
    /\ prd_exists /\ plan_exists
    /\ pc' = "parse_prd"
    /\ UNCHANGED <<run, inputVars, prdVars, planVars, testVars, issueVars,
                   outVars, first_report>>

\* parse_prd, lines 102-136: one line
ParsePrdLine ==
    /\ pc = "parse_prd"
    /\ prdIdx <= Len(prdLines)
    /\ requirements' = PrdLineStep(requirements, prdIdx, prdLines[prdIdx])
    /\ prdIdx' = prdIdx + 1
    /\ UNCHANGED <<pc, run, inputVars, planVars, testVars, issueVars, outVars,
                   first_report>>

\* parse_prd, line 138
ParsePrdReturn ==
    /\ pc = "parse_prd"
    /\ prdIdx > Len(prdLines)
    /\ pc' = "parse_plan"
    /\ UNCHANGED <<run, inputVars, prdVars, planVars, testVars, issueVars,
                   outVars, first_report>>

\* parse_plan, lines 149-249: one line
ParsePlanLine ==
    /\ pc = "parse_plan"
    /\ planIdx <= Len(planLines)
    /\ LET st == PlanLineStep([items |-> plan_items,
                               section |-> current_section_reqs],
                              planIdx, planLines)
       IN  /\ plan_items' = st.items
           /\ current_section_reqs' = st.section
    /\ planIdx' = planIdx + 1
    /\ UNCHANGED <<pc, run, inputVars, prdVars, testVars, issueVars, outVars,
                   first_report>>

\* parse_plan, line 251
ParsePlanReturn ==
    /\ pc = "parse_plan"
    /\ planIdx > Len(planLines)
    /\ pc' = "find_test_files"
    /\ UNCHANGED <<run, inputVars, prdVars, planVars, testVars, issueVars,
                   outVars, first_report>>

\* run_audit, line 458: the files come in the order the set gives them
FindTestFiles ==
    /\ pc = "find_test_files"
    /\ test_files' \in find_test_files(project_files)
    /\ pc' = "analyze"
    /\ UNCHANGED <<run, inputVars, prdVars, planVars, fileIdx, tests, issueVars,
                   outVars, first_report>>

\* run_audit, lines 459-460: one test file
AnalyzeTestFile ==
    /\ pc = "analyze"
    /\ fileIdx <= Len(test_files)
    /\ ~Uncaught(project_files[test_files[fileIdx]])
    /\ tests' = tests \o analyze_test_file(test_files[fileIdx],
                                           project_files[test_files[fileIdx]])
    /\ fileIdx' = fileIdx + 1
    /\ UNCHANGED <<pc, run, inputVars, prdVars, planVars, test_files, issueVars,
                   outVars, first_report>>

\* lines 283-285 on a file whose exception is not a SyntaxError: nothing
\* catches it in analyze_test_file, run_audit (459-460) or main (666), so the
\* interpreter ends the process with status 1 and no report
AnalyzeTestFileRaises ==
    /\ pc = "analyze"
    /\ fileIdx <= Len(test_files)
    /\ Uncaught(project_files[test_files[fileIdx]])
    /\ exit_status' = 1
    /\ pc' = "exited"
    /\ UNCHANGED <<run, inputVars, prdVars, planVars, testVars, issueVars,
                   report, output, first_report>>

\* run_audit, lines 462-497
Reconcile ==
    /\ pc = "analyze"
    /\ fileIdx > Len(test_files)
    /\ prd_not_in_plan' = PrdNotInPlan(requirements, plan_items)
    /\ plan_not_in_prd' = PlanNotInPrd(plan_items, requirements)
    /\ no_test_coverage' = NoTestCoverage(requirements, tests)
    /\ suspect_tests' = SuspectTests(tests)
    /\ completion_issues' = CompletionIssues(plan_items, requirements, tests)
    /\ pc' = "generate_report"
    /\ UNCHANGED <<run, inputVars, prdVars, planVars, testVars, outVars,
                   first_report>>

\* main, line 669
GenerateReport ==
    /\ pc = "generate_report"
    /\ report' = generate_report(requirements, plan_items, tests, prd_not_in_plan,
                                 plan_not_in_prd, no_test_coverage, suspect_tests,
                                 completion_issues)
    /\ pc' = "output"
    /\ UNCHANGED <<run, inputVars, prdVars, planVars, testVars, issueVars,
                   output, exit_status, first_report>>

\* main, lines 671-676: --stdout prints the report, otherwise it is written
EmitReport ==
    /\ pc = "output"
    /\ output' \in {"printed", "written"}
    /\ pc' = "exit"
    /\ UNCHANGED <<run, inputVars, prdVars, planVars, testVars, issueVars,
                   report, exit_status, first_report>>

\* main, lines 678-686
Exit ==
    /\ pc = "exit"
    /\ exit_status' = ExitStatus(prd_not_in_plan, plan_not_in_prd, suspect_tests,
                                 completion_issues)
    /\ pc' = "exited"
    /\ UNCHANGED <<run, inputVars, prdVars, planVars, testVars, issueVars,
                   report, output, first_report>>

Next ==
    \/ MainMissingDocument
    \/ MainRunAudit
    \/ ParsePrdLine
    \/ ParsePrdReturn
    \/ ParsePlanLine
    \/ ParsePlanReturn
    \/ FindTestFiles
    \/ AnalyzeTestFile
    \/ AnalyzeTestFileRaises
    \/ Reconcile
    \/ GenerateReport
    \/ EmitReport
    \/ Exit

Spec == Init /\ [][Next]_vars

(***************************************************************************)
(* The extractors and the integrity check on their own, over wider inputs. *)
(***************************************************************************)
NoFiles == [p \in {} |-> FileContent(p)]

InitPrd ==
    /\ pc = "parse_prd"
    /\ run = 1
    /\ first_report = NoReport
    /\ prd_exists = TRUE
    /\ plan_exists = TRUE
    /\ prdLines \in SeqsUpTo(PrdLineSet, MaxPrdLines)
    /\ planLines = <<>>
    /\ project_files = NoFiles
    /\ InitComputed

SpecPrd == InitPrd /\ [][ParsePrdLine]_vars

InitPlan ==
    /\ pc = "parse_plan"
    /\ run = 1
    /\ first_report = NoReport
    /\ prd_exists = TRUE
    /\ plan_exists = TRUE
    /\ prdLines = <<>>
    /\ planLines \in SeqsUpTo(PlanLineSet, MaxPlanLines)
    /\ project_files = NoFiles
    /\ InitComputed

SpecPlan == InitPlan /\ [][ParsePlanLine]_vars

\* one test file holding one test function, with any body of BodySet
InitIntegrity ==
    /\ pc = "find_test_files"
    /\ run = 1
    /\ first_report = NoReport
    /\ prd_exists = TRUE
    /\ plan_exists = TRUE
    /\ prdLines = <<>>
    /\ planLines = <<>>
    /\ \E b \in BodySet :
          project_files =
              [p \in {PathA} |->
                  [raises |-> "none",
                   body |-> <<FuncNode(<<"test_", "one">>, 1, <<>>, b)>>]]
    /\ InitComputed

NextIntegrity == FindTestFiles \/ AnalyzeTestFile

SpecIntegrity == InitIntegrity /\ [][NextIntegrity]_vars

(***************************************************************************)
(* The audit run twice on an unchanged project: the second process starts  *)
(* from the same files, and the first report is kept to compare.           *)
(***************************************************************************)
InitTwice == Init /\ Len(prdLines) <= 1 /\ Len(planLines) <= 1

Rerun ==
    /\ pc = "exited"
    /\ run = 1
    /\ output # "none"
    /\ run' = 2
    /\ first_report' = report
    /\ pc' = "main"
    /\ requirements' = <<>>
    /\ prdIdx' = 1
    /\ plan_items' = <<>>
    /\ planIdx' = 1
    /\ current_section_reqs' = <<>>
    /\ test_files' = <<>>
    /\ fileIdx' = 1
    /\ tests' = <<>>
    /\ prd_not_in_plan' = <<>>
    /\ plan_not_in_prd' = <<>>
    /\ no_test_coverage' = <<>>
    /\ suspect_tests' = <<>>
    /\ completion_issues' = <<>>
    /\ report' = NoReport
    /\ output' = "none"
    /\ exit_status' = -1
    /\ UNCHANGED inputVars

NextTwice == Next \/ Rerun

SpecTwice == InitTwice /\ [][NextTwice]_vars

(***************************************************************************)
(* Properties of the plan extractor, checked under SpecPlan.               *)
(***************************************************************************)
PlanParsed == planIdx > Len(planLines)

TableRowsFor(id) ==
    {k \in DOMAIN planLines :
        PLAN_TABLE_PATTERN(planLines[k]) /\ planLines[k].ids[1] = id}

TaskLinesFor(id) ==
    {k \in DOMAIN planLines :
        TASK_PATTERN(planLines[k]) /\ id \in Range(planLines[k].ids)}

HeadingsFor(id) ==
    {k \in DOMAIN planLines :
        HEADER_PATTERN(planLines[k]) /\ id \in Range(planLines[k].ids)}

\* the item holds the checkbox, the trimmed text and the number of line k
CarriesTaskLine(item, k) ==
    /\ item.completed = (planLines[k].status \in {"x", "X"})
    /\ item.text = Strip(planLines[k].text)
    /\ item.line_number = k

\* C1 as stated: whenever the plan holds a table row and a strict or loose
\* task line for an id, the final PlanItem of the id carries the completed
\* flag, text and line number of a task line for it.
C1_PlanPrecedenceAnyDocument ==
    PlanParsed =>
        \A id \in Ids :
            (TableRowsFor(id) # {} /\ TaskLinesFor(id) # {}) =>
                /\ Has(plan_items, id)
                /\ \E k \in TaskLinesFor(id) : CarriesTaskLine(Get(plan_items, id), k)

\* C1, amended: whenever the plan holds a table row and a strict or loose
\* task line for an id, and no heading line names the id, the final PlanItem
\* of the id carries the completed flag, trimmed text and line number of the
\* last task line for it, wherever the table rows stand.
C1_PlanPrecedence ==
    PlanParsed =>
        \A id \in Ids :
            (TableRowsFor(id) # {} /\ TaskLinesFor(id) # {} /\ HeadingsFor(id) = {}) =>
                /\ Has(plan_items, id)
                /\ CarriesTaskLine(Get(plan_items, id), Max(TaskLinesFor(id)))

\* a "Done" row before and after an unchecked task line of FR-1: both orders
C1_Witness ==
    /\ PlanParsed
    /\ Len(planLines) = 3
    /\ TableRowsFor("FR-1") = {1, 3}
    /\ TableCompleted(planLines[1]) /\ TableCompleted(planLines[3])
    /\ TaskLinesFor("FR-1") = {2}
    /\ planLines[2].status = " "
    /\ Get(plan_items, "FR-1").completed = FALSE
    /\ Get(plan_items, "FR-1").line_number = 2

\* C2: right after a strict or loose task line whose checkbox is not x/X is
\* processed, every id of current_section_ids is incomplete in the plan
\* mapping; and the heading "Section (FR-2)" followed by the unchecked loose
\* task "sub-step (FR-2)" ends with FR-2 incomplete.
C2_SectionRevocation ==
    /\ (/\ planIdx > 1
        /\ TASK_PATTERN(planLines[planIdx - 1])
        /\ planLines[planIdx - 1].status \notin {"x", "X"})
       => \A id \in Range(current_section_reqs) :
              Has(plan_items, id) /\ ~Get(plan_items, id).completed
    /\ (/\ PlanParsed
        /\ planLines = <<PlanLine("heading", "", <<"FR-2">>, <<>>),
                         PlanLine("loose", " ", <<"FR-2">>, <<>>)>>)
       => Has(plan_items, "FR-2") /\ ~Get(plan_items, "FR-2").completed

\* an unchecked task naming no id has just revoked the heading's FR-2
C2_Witness ==
    /\ planIdx = 3
    /\ HEADER_PATTERN(planLines[1])
    /\ planLines[1].ids = <<"FR-1", "FR-2">>
    /\ planLines[2].kind = "loose"
    /\ planLines[2].status = " "
    /\ planLines[2].ids = <<>>
    /\ current_section_reqs = <<"FR-1", "FR-2">>
    /\ Get(plan_items, "FR-2").line_number = 1
    /\ ~Get(plan_items, "FR-2").completed

(***************************************************************************)
(* Properties of the requirement extractor, checked under SpecPrd.         *)
(***************************************************************************)
PrdParsed == prdIdx > Len(prdLines)

\* the lines that define id in one of the three forms
DefiningLines(id) ==
    {k \in DOMAIN prdLines : PrdMatch(prdLines[k]).ok /\ PrdMatch(prdLines[k]).id = id}

\* the text a defining line gives: the second cell of a table row, what
\* follows the colon otherwise, trimmed
TrimmedText(line) ==
    Strip(IF line.form = "table" THEN BeforePipe(line.raw) ELSE line.raw)

\* C9: the requirements mapping holds, for every id some line defines, the
\* trimmed text and the 1-indexed number of the last line that defines it,
\* and one entry per id.
C9_LastWins ==
    PrdParsed =>
        /\ \A id \in Ids :
              IF DefiningLines(id) = {} THEN ~Has(requirements, id)
              ELSE /\ Has(requirements, id)
                   /\ Get(requirements, id).line_number = Max(DefiningLines(id))
                   /\ Get(requirements, id).text =
                          TrimmedText(prdLines[Max(DefiningLines(id))])
        /\ Len(requirements) = Cardinality(Keys(requirements))
        /\ Keys(requirements) \subseteq Ids

\* FR-1 defined by a list line, then by a table row with another text
C9_Witness ==
    /\ PrdParsed
    /\ DefiningLines("FR-1") = {1, 3}
    /\ prdLines[1].form = "list"
    /\ prdLines[3].form = "table"
    /\ TrimmedText(prdLines[1]) # TrimmedText(prdLines[3])
    /\ Get(requirements, "FR-1").text = <<"b">>
    /\ Get(requirements, "FR-1").line_number = 3

(***************************************************************************)
(* Properties of the reconciliation and of the exit, checked under Spec.   *)
(***************************************************************************)
\* run_audit has returned
Audited == pc \in {"generate_report", "output", "exit"} \/ (pc = "exited" /\ output # "none")

Untested(id) == ~\E k \in DOMAIN tests : id \in Range(tests[k].requirement_ids)

\* C3: after run_audit a requirement id is in no_test_coverage iff no
\* TestInfo lists it, and no_test_coverage holds requirement ids only.
C3_CoverageJoin ==
    Audited =>
        /\ \A id \in Keys(requirements) : id \in Range(no_test_coverage) <=> Untested(id)
        /\ Range(no_test_coverage) \subseteq Keys(requirements)

\* FR-1 is tested by the second test only, FR-2 by none
C3_Witness ==
    /\ Audited
    /\ Len(tests) = 2
    /\ "FR-1" \notin Range(tests[1].requirement_ids)
    /\ "FR-1" \in Range(tests[2].requirement_ids)
    /\ Keys(requirements) = {"FR-1", "FR-2"}
    /\ no_test_coverage = <<"FR-2">>

DishonestIds ==
    {id \in Keys(plan_items) :
        Get(plan_items, id).completed /\ id \in Keys(requirements) /\ Untested(id)}

\* C4: after run_audit completion_issues holds the pair (id, "Marked
\* complete but no tests found") exactly for the plan ids that are complete,
\* are requirement ids and are listed by no TestInfo, once each.
C4_CompletionHonesty ==
    Audited =>
        /\ Range(completion_issues) =
              {<<id, "Marked complete but no tests found">> : id \in DishonestIds}
        /\ Len(completion_issues) = Cardinality(DishonestIds)

\* one issue, beside a complete and untested plan id that is no requirement
C4_Witness ==
    /\ Audited
    /\ Len(completion_issues) = 1
    /\ \E id \in Keys(plan_items) \ Keys(requirements) :
          Get(plan_items, id).completed /\ Untested(id)

\* C5: after run_audit prd_not_in_plan is the set of requirement ids that
\* are no plan ids, plan_not_in_prd the set of plan ids that are no
\* requirement ids, each id once; the two are disjoint.
C5_SyncGaps ==
    Audited =>
        /\ Range(prd_not_in_plan) = Keys(requirements) \ Keys(plan_items)
        /\ Range(plan_not_in_prd) = Keys(plan_items) \ Keys(requirements)
        /\ Len(prd_not_in_plan) = Cardinality(Range(prd_not_in_plan))
        /\ Len(plan_not_in_prd) = Cardinality(Range(plan_not_in_prd))
        /\ Range(prd_not_in_plan) \cap Range(plan_not_in_prd) = {}

\* an incomplete plan item that is no requirement, and a requirement that is
\* no plan item
C5_Witness ==
    /\ Audited
    /\ prd_not_in_plan = <<"FR-1">>
    /\ plan_not_in_prd = <<"FR-2">>
    /\ ~Get(plan_items, "FR-2").completed

Completed == pc = "exited" /\ output # "none"

\* C6: a completed audit exits 0 iff prd_not_in_plan, plan_not_in_prd,
\* suspect_tests and completion_issues are all empty; the displayed total
\* counts no_test_coverage too, so with only no_test_coverage non-empty the
\* exit status is 0 and the displayed total is above zero.
C6_ExitStatusAsymmetry ==
    Completed =>
        /\ exit_status = 0 <=>
              (/\ prd_not_in_plan = <<>>
               /\ plan_not_in_prd = <<>>
               /\ suspect_tests = <<>>
               /\ completion_issues = <<>>)
        /\ exit_status \in {0, 1}
        /\ report.total.n =
              Len(prd_not_in_plan) + Len(plan_not_in_prd) + Len(no_test_coverage)
              + Len(suspect_tests) + Len(completion_issues)
        /\ (report.total.line = "**No issues found.**") <=> (report.total.n = 0)
        /\ (/\ no_test_coverage # <<>>
            /\ prd_not_in_plan = <<>>
            /\ plan_not_in_prd = <<>>
            /\ suspect_tests = <<>>
            /\ completion_issues = <<>>)
           => (exit_status = 0 /\ report.total.n > 0)

\* only no_test_coverage is non-empty: exit 0, a total above zero displayed
C6_Witness ==
    /\ Completed
    /\ no_test_coverage # <<>>
    /\ exit_status = 0
    /\ report.total.line = "**Total issues found: "
    /\ report.total.n = Len(no_test_coverage)

(***************************************************************************)
(* Properties of the integrity check, checked under SpecIntegrity.         *)
(***************************************************************************)
Analyzed == pc = "analyze" /\ fileIdx = 2

\* the body of the one test function
TestBody == project_files[PathA].body[1].body

TrivialComparison == Stmt("Assert", Expr("Compare", "Eq", "1", "1"), <<>>)

\* C7 as stated: a test whose only statement is assert 1 == 1 gets both
\* the trivial-comparison issue and the no-assertions issue.
C7_TautologyBothIssues ==
    (Analyzed /\ TestBody = <<TrivialComparison>>) =>
        /\ "Always-pass pattern: trivial comparison" \in Range(tests[1].issues)
        /\ "No assertions found (placeholder test)" \in Range(tests[1].issues)

\* C7, amended: a test whose only statement is assert 1 == 1 gets exactly
\* the trivial-comparison issue; the no-assertions issue is not raised,
\* the assert statement being assertion evidence.
C7_TautologyDetection ==
    (Analyzed /\ TestBody = <<TrivialComparison>>) =>
        tests[1].issues = <<"Always-pass pattern: trivial comparison">>

C7_Witness ==
    /\ Analyzed
    /\ TestBody = <<TrivialComparison>>
    /\ Len(tests) = 1
    /\ "Always-pass pattern: trivial comparison" \in Range(tests[1].issues)

\* the body is one pass, after an optional leading docstring
IsPlaceholderBody(body) ==
    \/ body = <<Stmt("Pass", NoExpr, <<>>)>>
    \/ body = <<Stmt("Expr", Expr("Constant", "", "s", ""), <<>>),
                Stmt("Pass", NoExpr, <<>>)>>

\* C10: a test whose body, after an optional leading docstring, is exactly
\* one pass gets exactly the issue list ["Placeholder test (only pass
\* statement)"].
C10_PlaceholderDetection ==
    (Analyzed /\ IsPlaceholderBody(TestBody)) =>
        tests[1].issues = <<"Placeholder test (only pass statement)">>

\* a docstring and a pass, analyzed
C10_Witness ==
    /\ Analyzed
    /\ Len(TestBody) = 2
    /\ IsPlaceholderBody(TestBody)
    /\ tests[1].issues = <<"Placeholder test (only pass statement)">>

(***************************************************************************)
(* Idempotence, checked under SpecTwice.                                   *)
(***************************************************************************)
\* C8: the second run on the unchanged project yields the report of the
\* first, byte for byte.
C8_Idempotence ==
    (run = 2 /\ pc = "exited" /\ output # "none") => report = first_report

(***************************************************************************)
(* The fatal precondition, checked under Spec.                             *)
(***************************************************************************)
\* nothing was parsed, scanned or reconciled, and no report exists
NothingComputed ==
    /\ requirements = <<>> /\ prdIdx = 1
    /\ plan_items = <<>> /\ planIdx = 1 /\ current_section_reqs = <<>>
    /\ test_files = <<>> /\ fileIdx = 1 /\ tests = <<>>
    /\ prd_not_in_plan = <<>> /\ plan_not_in_prd = <<>>
    /\ no_test_coverage = <<>> /\ suspect_tests = <<>>
    /\ completion_issues = <<>>
    /\ report = NoReport
    /\ output = "none"

\* C11: with PRD.md or PLAN.md missing the run goes from main straight to
\* its exit with a nonzero status: no parsing, test scanning or
\* reconciliation step is taken and no report is written or printed.
C11_FatalPrecondition ==
    (~prd_exists \/ ~plan_exists) =>
        /\ pc \in {"main", "exited"}
        /\ NothingComputed
        /\ pc = "exited" => (exit_status # 0 /\ exit_status = 1)
        /\ pc = "main" => ENABLED MainMissingDocument

\* PLAN.md alone is missing, in a project with a PRD and test files: exit 1
C11_Witness ==
    /\ pc = "exited"
    /\ prd_exists /\ ~plan_exists
    /\ prdLines # <<>>
    /\ FoundTestFiles(project_files) # {}
    /\ exit_status = 1
    /\ output = "none"

(***************************************************************************)
(* The tolerated parse failure, checked under Spec.                        *)
(***************************************************************************)
\* the discovered files that read_text or ast.parse reject
UnparsedFiles ==
    {p \in FoundTestFiles(project_files) : project_files[p].raises # "none"}

\* the records that file p has contributed to result.tests
RecordsOf(p) ==
    LET from_p(t) == t.file = p
    IN  SelectSeq(tests, from_p)

\* the files whose turn in run_audit's loop (459-460) is over
AnalyzedFiles == {test_files[k] : k \in 1..(fileIdx - 1)}

\* every analyzed file that parses has the records it has when audited alone,
\* and an analyzed file that does not parse has none
RecordsUntouched ==
    \A p \in AnalyzedFiles :
        RecordsOf(p) = IF p \in UnparsedFiles THEN <<>>
                       ELSE ProcessNodes(p, project_files[p].body)

\* a run that got past main ends only after it has produced its report
ReportProduced == pc = "exited" => (output # "none" /\ report # NoReport)

\* C12: when one discovered test file fails to parse, it contributes no
\* TestInfo record, the records of every other file are what they are without
\* it, and the audit still reaches reconciliation and produces a report.
C12_ToleratedParseFailure ==
    (prd_exists /\ plan_exists /\ Cardinality(UnparsedFiles) = 1) =>
        (RecordsUntouched /\ ReportProduced)

\* the part of C12 that the except clause of line 287 gives: the same, for a
\* file on which ast.parse raises SyntaxError
SyntaxErrorTolerated ==
    (/\ prd_exists /\ plan_exists
     /\ \A p \in UnparsedFiles : project_files[p].raises = "SyntaxError") =>
        (RecordsUntouched /\ ReportProduced)

\* a file with a SyntaxError and a file with a test, audited to the end
SyntaxErrorToleratedWitness ==
    /\ pc = "exited"
    /\ output # "none"
    /\ PathBad \in AnalyzedFiles
    /\ PathA \in AnalyzedFiles
    /\ Len(tests) = 2

(***************************************************************************)
(* The no-assertions rule, checked under SpecIntegrity.                    *)
(***************************************************************************)
NoAssertionsIssue == "No assertions found (placeholder test)"

\* the issue is among those of the analyzed test
NoAssertionsRaised ==
    \E k \in DOMAIN tests[1].issues : tests[1].issues[k] = NoAssertionsIssue

\* every statement left after the docstring is a pass or a bare constant
OnlyNoOps(body) ==
    \A k \in DOMAIN body :
        \/ body[k].kind = "Pass"
        \/ body[k].kind = "Expr" /\ body[k].val.e = "Constant"

\* C13: for a test that is not a single-pass placeholder, without assertion
\* evidence the issue "No assertions found (placeholder test)" is raised if
\* and only if every docstring-stripped top-level statement is a pass or a
\* bare literal constant; with assertion evidence it is never raised.
C13_NoAssertionsRule ==
    (Analyzed /\ ~IsPlaceholderBody(TestBody)) =>
        IF has_assertion(TestBody)
        THEN ~NoAssertionsRaised
        ELSE NoAssertionsRaised <=> OnlyNoOps(body_without_docstring(TestBody))

\* a bare number and a pass: no evidence, only no-ops, the issue is raised
C13_Witness ==
    /\ Analyzed
    /\ TestBody = <<Stmt("Expr", Expr("Constant", "", "1", ""), <<>>),
                    Stmt("Pass", NoExpr, <<>>)>>
    /\ ~has_assertion(TestBody)
    /\ tests[1].issues = <<NoAssertionsIssue>>

\* a call that is no evidence: the body is active and the issue is not raised
C13_ActiveBodyWitness ==
    /\ Analyzed
    /\ TestBody = <<Stmt("Expr", Expr("Call", "run", "Attribute", ""), <<>>)>>
    /\ ~has_assertion(TestBody)
    /\ tests[1].issues = <<>>

(***************************************************************************)
(* Section-level completion, checked under SpecPlan.                       *)
(***************************************************************************)
\* the lines after heading h and before the next heading line
SectionOf(h) ==
    {j \in DOMAIN planLines :
        j > h /\ \A m \in (h + 1)..j : ~HEADER_PATTERN(planLines[m])}

\* every checkbox task line of the section of heading h is checked
SectionChecked(h) ==
    \A j \in SectionOf(h) :
        TASK_PATTERN(planLines[j]) => planLines[j].status \in {"x", "X"}

\* C14: an id named in exactly one heading and in no task line or table row
\* ends completed if and only if every strict or loose task line between
\* that heading and the next heading line has an x/X checkbox; task lines
\* after the next heading do not change it.
C14_SectionCompletion ==
    PlanParsed =>
        \A id \in Ids :
            (/\ Cardinality(HeadingsFor(id)) = 1
             /\ TaskLinesFor(id) = {}
             /\ TableRowsFor(id) = {}) =>
                /\ Has(plan_items, id)
                /\ Get(plan_items, id).completed
                       <=> SectionChecked(Max(HeadingsFor(id)))

\* an unchecked task after the next heading: FR-1 of the first heading stays
\* completed
C14_Witness ==
    /\ PlanParsed
    /\ planLines = <<PlanLine("heading", "", <<"FR-1", "FR-2">>, <<>>),
                     PlanLine("heading", "", <<>>, <<>>),
                     PlanLine("loose", " ", <<>>, <<>>)>>
    /\ Get(plan_items, "FR-1").completed
    /\ Get(plan_items, "FR-1").line_number = 1

\* a checked and then an unchecked task inside the section: FR-1 is revoked
C14_RevokedWitness ==
    /\ PlanParsed
    /\ planLines = <<PlanLine("heading", "", <<"FR-1", "FR-2">>, <<>>),
                     PlanLine("loose", "X", <<>>, <<>>),
                     PlanLine("loose", " ", <<>>, <<>>)>>
    /\ ~Get(plan_items, "FR-1").completed

(***************************************************************************)
(* Containment of the issue sets, checked under Spec.                      *)
(***************************************************************************)
\* the ids of the pairs of completion_issues
CompletionIssueIds == {completion_issues[k][1] : k \in DOMAIN completion_issues}

\* C15: after run_audit every id in completion_issues is also in
\* no_test_coverage, is a key of both the requirements and the plan mapping,
\* and so is in neither prd_not_in_plan nor plan_not_in_prd.
C15_IssueSetContainment ==
    Audited =>
        \A id \in CompletionIssueIds :
            /\ id \in Range(no_test_coverage)
            /\ Has(requirements, id)
            /\ Has(plan_items, id)
            /\ id \notin Range(prd_not_in_plan)
            /\ id \notin Range(plan_not_in_prd)

\* FR-1 is a completion issue among two untested requirements, the other of
\* which the plan does not know
C15_Witness ==
    /\ Audited
    /\ CompletionIssueIds = {"FR-1"}
    /\ Range(no_test_coverage) = {"FR-1", "FR-2"}
    /\ prd_not_in_plan = <<"FR-2">>
    /\ plan_not_in_prd = <<>>

====
